---- MODULE Spec2Model ----
(***************************************************************************)
(* leetmouse: the acceleration routine of driver/accel.c.                  *)
(*                                                                         *)
(* accelerate() is modelled as one atomic step per call (the caller        *)
(* serialises the calls), together with the two things the outside world   *)
(* does between calls: writing a module parameter through sysfs and        *)
(* letting time pass.  SpecRace takes the calls statement by statement     *)
(* instead, for callers that do not serialise.                             *)
(*                                                                         *)
(* A C float is modelled as an IEEE-754 binary32 value: a record           *)
(* [m |-> mantissa, e |-> exponent] standing for m * 2^e, with |m| < 2^24  *)
(* and m odd (or m = 0, e = 0).  Every arithmetic operator rounds its      *)
(* exact result to 24 significant bits, ties to even, as the hardware      *)
(* does.  Infinities, NaN, signed zero and the exponent limits are left    *)
(* out: no value of the model comes near them.                             *)
(***************************************************************************)
EXTENDS Integers, Sequences, FiniteSets, TLC

----------------------------------------------------------------------------
(* Integer helpers *)

Pow2Tab ==
    << 1, 2, 4, 8, 16, 32, 64, 128, 256, 512, 1024, 2048, 4096, 8192, 16384,
       32768, 65536, 131072, 262144, 524288, 1048576, 2097152, 4194304,
       8388608, 16777216, 33554432, 67108864, 134217728, 268435456,
       536870912, 1073741824 >>

Pow2(n) == Pow2Tab[n + 1]

Abs(n) == IF n < 0 THEN -n ELSE n

Sgn(n) == IF n < 0 THEN -1 ELSE IF n > 0 THEN 1 ELSE 0

\* The number of bits of n, 0 <= n < 2^31, by halving the search range.
BitLen(n) ==
    IF n >= 32768
    THEN IF n >= 8388608
         THEN IF n >= 134217728
              THEN IF n >= 536870912
                   THEN IF n >= 1073741824 THEN 31 ELSE 30
                   ELSE IF n >= 268435456 THEN 29 ELSE 28
              ELSE IF n >= 33554432
                   THEN IF n >= 67108864 THEN 27 ELSE 26
                   ELSE IF n >= 16777216 THEN 25 ELSE 24
         ELSE IF n >= 524288
              THEN IF n >= 2097152
                   THEN IF n >= 4194304 THEN 23 ELSE 22
                   ELSE IF n >= 1048576 THEN 21 ELSE 20
              ELSE IF n >= 131072
                   THEN IF n >= 262144 THEN 19 ELSE 18
                   ELSE IF n >= 65536 THEN 17 ELSE 16
    ELSE IF n >= 128
         THEN IF n >= 2048
              THEN IF n >= 8192
                   THEN IF n >= 16384 THEN 15 ELSE 14
                   ELSE IF n >= 4096 THEN 13 ELSE 12
              ELSE IF n >= 512
                   THEN IF n >= 1024 THEN 11 ELSE 10
                   ELSE IF n >= 256 THEN 9 ELSE 8
         ELSE IF n >= 8
              THEN IF n >= 32
                   THEN IF n >= 64 THEN 7 ELSE 6
                   ELSE IF n >= 16 THEN 5 ELSE 4
              ELSE IF n >= 2
                   THEN IF n >= 4 THEN 3 ELSE 2
                   ELSE IF n >= 1 THEN 1 ELSE 0

\* The number of trailing zero bits of n # 0, likewise.
Zeros(n) ==
    IF n % 32768 = 0
    THEN IF n % 8388608 = 0
         THEN IF n % 134217728 = 0
              THEN IF n % 536870912 = 0
                   THEN IF n % 1073741824 = 0 THEN 30 ELSE 29
                   ELSE IF n % 268435456 = 0 THEN 28 ELSE 27
              ELSE IF n % 33554432 = 0
                   THEN IF n % 67108864 = 0 THEN 26 ELSE 25
                   ELSE IF n % 16777216 = 0 THEN 24 ELSE 23
         ELSE IF n % 524288 = 0
              THEN IF n % 2097152 = 0
                   THEN IF n % 4194304 = 0 THEN 22 ELSE 21
                   ELSE IF n % 1048576 = 0 THEN 20 ELSE 19
              ELSE IF n % 131072 = 0
                   THEN IF n % 262144 = 0 THEN 18 ELSE 17
                   ELSE IF n % 65536 = 0 THEN 16 ELSE 15
    ELSE IF n % 128 = 0
         THEN IF n % 2048 = 0
              THEN IF n % 8192 = 0
                   THEN IF n % 16384 = 0 THEN 14 ELSE 13
                   ELSE IF n % 4096 = 0 THEN 12 ELSE 11
              ELSE IF n % 512 = 0
                   THEN IF n % 1024 = 0 THEN 10 ELSE 9
                   ELSE IF n % 256 = 0 THEN 8 ELSE 7
         ELSE IF n % 8 = 0
              THEN IF n % 32 = 0
                   THEN IF n % 64 = 0 THEN 6 ELSE 5
                   ELSE IF n % 16 = 0 THEN 4 ELSE 3
              ELSE IF n % 2 = 0
                   THEN IF n % 4 = 0 THEN 2 ELSE 1
                   ELSE 0

Shifted(m, e, z) == [m |-> m \div Pow2(z), e |-> e + z]

\* m * 2^e with the factors of two moved into the exponent.
Canon(m, e) == IF m = 0 THEN [m |-> 0, e |-> 0] ELSE Shifted(m, e, Zeros(m))

----------------------------------------------------------------------------
(* binary32 arithmetic *)

\* (q + rem / (2 * half)) * 2^e, and a little more when sticky, rounded to
\* the nearest q or q + 1, ties to even.
RoundUp(q, rem, half, sticky, e) ==
    Canon(IF \/ rem > half
             \/ rem = half /\ sticky
             \/ rem = half /\ ~sticky /\ q % 2 = 1
          THEN q + 1 ELSE q, e)

\* The same for S with r bits too many.
RoundTo(S, sticky, e, r) ==
    IF r <= 0 THEN Canon(S, e)
    ELSE RoundUp(S \div Pow2(r), S % Pow2(r), Pow2(r - 1), sticky, e + r)

\* The value (S + f) * 2^e, with f = 0 when ~sticky and 0 < f < 1 when
\* sticky, rounded to 24 significant bits, ties to even.
RoundNE(S, sticky, e) == RoundTo(S, sticky, e, BitLen(Abs(S)) - 24)

FZero == [m |-> 0, e |-> 0]

FNeg(a) == [m |-> -a.m, e |-> a.e]

\* The position just above the leading bit of a nonzero float.
Top(a) == a.e + BitLen(Abs(a.m))

\* H * 2^eH + lo, H of 30 bits and lo below it: lo is brought to the
\* exponent eH, the bits that fall off are remembered as a sticky bit.
AddAt(H, eH, lo, d) ==
    RoundNE(H + (IF d >= 0 THEN lo.m * Pow2(d)
                 ELSE IF -d >= 31 THEN (IF lo.m < 0 THEN -1 ELSE 0)
                 ELSE lo.m \div Pow2(-d)),
            d < 0 /\ (-d >= 31 \/ lo.m % Pow2(-d) # 0),
            eH)

AddSh(hi, lo, sh) == AddAt(hi.m * Pow2(sh), hi.e - sh, lo, lo.e - (hi.e - sh))

\* hi + lo for Top(hi) >= Top(lo).
AddTo(hi, lo) == AddSh(hi, lo, 30 - BitLen(Abs(hi.m)))

FAdd(a, b) ==
    IF a.m = 0 THEN b
    ELSE IF b.m = 0 THEN a
    ELSE AddTo(IF Top(a) >= Top(b) THEN a ELSE b,
               IF Top(a) >= Top(b) THEN b ELSE a)

FSub(a, b) == FAdd(a, FNeg(b))

\* A magnitude Q with a sticky bit, given its sign, as RoundNE takes it.
Signed(sign, Q, sticky) ==
    IF sign < 0 THEN (IF sticky THEN -Q - 1 ELSE -Q) ELSE Q

\* sign * (H * 2^24 + Lo) * 2^e, H of h bits: the product is cut to 30 bits.
MulCut(sign, H, Lo, e, h) ==
    IF h < 6
    THEN RoundNE(sign * (H * 16777216 + Lo), FALSE, e)
    ELSE RoundNE(Signed(sign, H * Pow2(30 - h) + (Lo \div Pow2(h - 6)),
                        Lo % Pow2(h - 6) # 0),
                 Lo % Pow2(h - 6) # 0, e + (h - 6))

MulHL(sign, H, Lo, e) == MulCut(sign, H, Lo, e, BitLen(H))

MulSum(sign, hh, mid, L, e) ==
    MulHL(sign, hh + (mid \div 4096) + (L \div 16777216), L % 16777216, e)

\* (ah * 2^12 + al) * (bh * 2^12 + bl), piece by piece.
MulParts(sign, ah, al, bh, bl, e) ==
    MulSum(sign, ah * bh, ah * bl + al * bh,
           ((ah * bl + al * bh) % 4096) * 4096 + al * bl, e)

FMul(a, b) ==
    IF a.m = 0 \/ b.m = 0 THEN FZero
    ELSE MulParts(Sgn(a.m) * Sgn(b.m),
                  Abs(a.m) \div 4096, Abs(a.m) % 4096,
                  Abs(b.m) \div 4096, Abs(b.m) % 4096, a.e + b.e)

\* n quotient bits of R / B, R < 2B: <<quotient, remainder>>.
RECURSIVE DivBits(_, _, _, _)
DivBits(R, B, n, Q) ==
    IF n = 0 THEN <<Q, R>>
    ELSE IF R >= B THEN DivBits(2 * (R - B), B, n - 1, 2 * Q + 1)
    ELSE DivBits(2 * R, B, n - 1, 2 * Q)

DivRound(sign, qr, e) ==
    RoundNE(Signed(sign, qr[1], qr[2] # 0), qr[2] # 0, e)

\* Both mantissas are brought to 24 bits before they are divided.
DivNorm(a, b, sa, sb) ==
    DivRound(Sgn(a.m) * Sgn(b.m),
             DivBits(Abs(a.m) * Pow2(sa), Abs(b.m) * Pow2(sb), 27, 0),
             (a.e - sa) - (b.e - sb) - 26)

FDiv(a, b) ==
    IF a.m = 0 THEN FZero
    ELSE DivNorm(a, b, 24 - BitLen(Abs(a.m)), 24 - BitLen(Abs(b.m)))

FLt(a, b) == FSub(a, b).m < 0

FLe(a, b) == FSub(a, b).m <= 0

IntMin == -2147483647 - 1

\* (float) n for an int or a long n.
IntToF(n) == IF n = IntMin THEN [m |-> -1, e |-> 31] ELSE RoundNE(n, FALSE, 0)

\* (int) a: truncation towards zero.  A value outside the range of int is
\* undefined in C; the x86 conversion instructions the kernel build emits
\* (cvttss2si) return the "integer indefinite" value 0x80000000.
FToInt(a) ==
    IF a.m = 0 THEN 0
    ELSE IF Top(a) >= 32 THEN IntMin
    ELSE IF a.e >= 0 THEN a.m * Pow2(a.e)
    ELSE IF -a.e >= 31 THEN 0
    ELSE Sgn(a.m) * (Abs(a.m) \div Pow2(-a.e))

FOne == [m |-> 1, e |-> 0]

\* sqrt(a) for a >= 0, correctly rounded: the root is developed two bits of
\* the radicand at a time, 15 integer pairs and 12 more below the point.
RECURSIVE SqrtDigits(_, _, _, _)
SqrtDigits(M, i, r, rem) ==
    IF i < -12 THEN <<r, rem>>
    ELSE LET pair == IF i >= 0 THEN (M \div Pow2(2 * i)) % 4 ELSE 0
             R    == 4 * rem + pair
             t    == 4 * r + 1
         IN  IF R >= t THEN SqrtDigits(M, i - 1, 2 * r + 1, R - t)
             ELSE SqrtDigits(M, i - 1, 2 * r, R)

SqrtRound(rr, e) == RoundNE(rr[1], rr[2] # 0, e)

\* The mantissa is shifted by s to 29 or 30 bits, the exponent left even.
SqrtAt(a, s) ==
    SqrtRound(SqrtDigits(a.m * Pow2(s), 14, 0, 0), ((a.e - s) \div 2) - 12)

SqrtEven(a, s0) == SqrtAt(a, IF (a.e - s0) % 2 = 0 THEN s0 ELSE s0 - 1)

B_sqrt(a) == IF a.m <= 0 THEN FZero ELSE SqrtEven(a, 30 - BitLen(a.m))

\* A power below the smallest binary32 value (2^-149) is zero.
FFlush(a) == IF a.m # 0 /\ Top(a) < -149 THEN FZero ELSE a

Square(h) == FFlush(FMul(h, h))

\* b^k for an integer k >= 0 by squaring; any power k >= 150 of a b < 1/2
\* is zero.
RECURSIVE IPow(_, _)
IPow(b, k) ==
    IF k = 0 THEN FOne
    ELSE IF b.m = 0 \/ (k >= 150 /\ Top(b) <= -1) THEN FZero
    ELSE IF k % 2 = 1 THEN FFlush(FMul(b, IPow(b, k - 1)))
    ELSE Square(IPow(b, k \div 2))

\* floor(a) as an integer, for |a| < 2^31.
FFloor(a) ==
    IF a.e >= 0 THEN a.m * Pow2(a.e)
    ELSE IF -a.e >= 31 THEN (IF a.m < 0 THEN -1 ELSE 0)
    ELSE a.m \div Pow2(-a.e)

\* base * (1 + f * (b - 1)): the step from b^k towards b^(k+1).
PowMix(b, f, base) ==
    IF f.m = 0 THEN base
    ELSE FMul(base, FAdd(FOne, FMul(f, FSub(b, FOne))))

PowParts(b, x, k) ==
    PowMix(b, FSub(x, IntToF(k)),
           IF k >= 0 THEN IPow(b, k) ELSE IPow(FDiv(FOne, b), -k))

\* b^x for b > 0: repeated multiplication for the integer part of x,
\* linear interpolation between neighbouring integer powers for the rest.
B_pow(b, x) == PowParts(b, x, FFloor(x))

\* Rounding to the nearest integer, ties away from zero, then the
\* conversion to int (out of range: see FToInt).
Leet_round(a) ==
    IF a.m = 0 THEN 0
    ELSE IF Top(a) >= 32 THEN IntMin
    ELSE IF a.e >= 0 THEN a.m * Pow2(a.e)
    ELSE IF -a.e >= 25 THEN 0
    ELSE LET p == Pow2(-a.e)
             q == Abs(a.m) \div p
             r == Abs(a.m) % p
         IN  Sgn(a.m) * (IF 2 * r >= p THEN q + 1 ELSE q)

----------------------------------------------------------------------------
(* Parameter strings and their parsing *)

DigitOf ==
    ("0" :> 0) @@ ("1" :> 1) @@ ("2" :> 2) @@ ("3" :> 3) @@ ("4" :> 4) @@
    ("5" :> 5) @@ ("6" :> 6) @@ ("7" :> 7) @@ ("8" :> 8) @@ ("9" :> 9)

RECURSIVE Pow10(_)
Pow10(k) == IF k = 0 THEN 1 ELSE 10 * Pow10(k - 1)

\* The decimal n / 10^k as a float.
DecToF(n, k) == FDiv(IntToF(n), IntToF(Pow10(k)))

\* Scans digits and one decimal point from position i on and stops at the
\* first other character (the "f" of a stringified default):
\* <<digits read as an integer, number of digits after the point>>.
RECURSIVE ScanDec(_, _, _, _, _)
ScanDec(str, i, n, k, dot) ==
    IF i > Len(str) THEN <<n, k>>
    ELSE IF str[i] \in DOMAIN DigitOf
         THEN ScanDec(str, i + 1, 10 * n + DigitOf[str[i]],
                      IF dot THEN k + 1 ELSE k, dot)
    ELSE IF str[i] = "." /\ ~dot THEN ScanDec(str, i + 1, n, k, TRUE)
    ELSE <<n, k>>

\* The float that <<digits, places>> stands for.
DecOf(nk) == DecToF(nk[1], nk[2])

Scanned(neg, v) == IF neg THEN FNeg(v) ELSE v

AtofFrom(str, neg) ==
    Scanned(neg, DecOf(ScanDec(str, IF neg THEN 2 ELSE 1, 0, 0, FALSE)))

\* atof(str, strlen(str), &g): the float a parameter string stands for.
atof(str) == AtofFrom(str, Len(str) > 0 /\ str[1] = "-")

----------------------------------------------------------------------------
(* Model bounds *)

\* Clock ticks per millisecond: ktime_t counts nanoseconds, the model
\* counts ticks of 1/TicksPerMs ms.
TicksPerMs == 2

\* Calls of accelerate() and writes of a parameter in one behaviour of Spec.
MaxCalls == 2

MaxWrites == 2

\* Calls of accelerate() in one behaviour of SpecOk.
MaxOkCalls == 3

\* Time between one call and the next, in ticks: less than a millisecond,
\* one second.
Elapsed == {1, 1000 * TicksPerMs}

\* The same in SpecOk, and a few milliseconds.
OkElapsed == {1, 8 * TicksPerMs, 1000 * TicksPerMs}

\* The mouse reports fed to accelerate(): <<x, y, wheel>>.  -16777216 is
\* -2^24; -16777217 is the nearest int that no float holds.
Samples ==
    { <<1, -2, 1>>, <<-16777216, 0, 0>>, <<-16777217, 3, -1>> }

\* The reports of SpecOk: those a float holds.
OkSamples == { <<1, -2, 1>>, <<-16777216, 0, 0>> }

\* What is written to the float parameters through sysfs.
ParamWrites ==
    { <<"Sensitivity", <<"0", ".", "5">> >>,
      <<"Acceleration", <<"0">> >> }

\* What is written to AccelerationMode (a byte).
ModeWrites == {0}

\* Calls of accelerate() in one behaviour of SpecCurve.
MaxCurveCalls == 2

\* The reports of SpecCurve: a distance of 10 and one that is no integer.
CurveSamples == { <<6, 8, 1>>, <<1, -2, -2>> }

\* Time between the calls of SpecCurve: less than a millisecond, 8 ms.
CurveElapsed == {1, 8 * TicksPerMs}

\* What SpecCurve writes to the float parameters.
CurveWrites ==
    { <<"Offset", <<"1", "0">> >>,
      <<"SpeedCap", <<"5">> >>,
      <<"ScrollsPerTick", <<"1">> >>,
      <<"SensitivityCap", <<"1">> >> }

\* What SpecCurve writes to AccelerationMode.
CurveModes == {0, 3, 255}

\* Calls of accelerate() in one behaviour of SpecRace, and the callers
\* that may be inside accelerate() at once.
MaxRaceCalls == 3

Callers == {1, 2}

\* The reports of SpecRace and the time a call takes to reach ktime_get().
RaceSamples == { <<1, 2, 1>> }

RaceElapsed == {8 * TicksPerMs}

----------------------------------------------------------------------------
(* Program constants *)

EBUSY == 16

EFAULT == 14

ACCELERATION_MODE == 1

\* s(default): the stringified defaults the parameter strings start with.
DefaultStrings ==
    [ SpeedCap       |-> <<"0", ".", "0", "f">>,
      Sensitivity    |-> <<"1", ".", "0", "f">>,
      Acceleration   |-> <<"0", ".", "0", "4", "f">>,
      SensitivityCap |-> <<"2", ".", "2", "f">>,
      Offset         |-> <<"0", ".", "0", "f">>,
      Exponent       |-> <<"0", ".", "0", "f">>,
      Midpoint       |-> <<"1", ".", "0", "f">>,
      ScrollsPerTick |-> <<"3", ".", "0", "f">> ]

\* float g_<param> = default: the compiled-in values.
DefaultParams ==
    [ SpeedCap       |-> DecToF(0, 1),
      Sensitivity    |-> DecToF(10, 1),
      Acceleration   |-> DecToF(4, 2),
      SensitivityCap |-> DecToF(22, 1),
      Offset         |-> DecToF(0, 1),
      Exponent       |-> DecToF(0, 1),
      Midpoint       |-> DecToF(10, 1),
      ScrollsPerTick |-> DecToF(30, 1) ]

ParamNames == DOMAIN DefaultParams

\* const float e = 2.71828f
e == DecToF(271828, 5)

----------------------------------------------------------------------------
(* State *)

VARIABLES
    buffer_x, buffer_y, buffer_whl,   \* static long: deltas not yet processed
    carry_x, carry_y, carry_whl,      \* static float: rounding remainders
    last_ms,                          \* static float: last accepted frame time
    last,                             \* static ktime_t: time of the last frame
    g_update,                         \* the "update" parameter (a byte)
    g_next_update,                    \* ktime_t: earliest next reload
    g_AccelerationMode,               \* the "AccelerationMode" parameter
    g,                                \* the float parameters g_<param>
    g_param,                          \* the parameter strings g_param_<param>
    fpu_depth,                        \* kernel FPU sections now open
    clock,                            \* what ktime_get() returns, in ticks
    \* what the last call of accelerate() did
    irq_fpu_usable,  \* what irq_fpu_usable() returned
    calc,         \* its intermediate values: raw (the ms measured), ms,
                  \* rate, gain, ideal, scaled
    cons,         \* the running sums of outputs and of ideal outputs
    calls,        \* number of calls so far
    writes,       \* number of parameter writes so far
    sample,       \* the caller's <<x, y, wheel>> on entry
    out,          \* the caller's <<x, y, wheel>> on return
    status,       \* the value returned
    path,         \* "none", "busy", "pre_fault", "post_fault" or "ok"
    fpu_log,      \* kernel_fpu_begin/end calls made, in order
    merged,       \* the deltas that entered the gain computation
    used,         \* the parameter values the computation read
    reloads,      \* number of reloads applied so far
    reload_at,    \* time of the last reload applied, -1 before the first
    owed,         \* exact sum of the raw deltas received since the last merge
    run,          \* what those were: "empty", "busy" (unavailable calls only)
                  \* or "mixed"
    taken,        \* at a merge: [run, sum], the run merged and its exact sum
    \* calls of accelerate() taken statement by statement
    thr,          \* per caller: where it is (pc), its sample s, its locals
                  \* delta_x, delta_y, delta_whl (d) and its status (st)
    acct          \* of those calls: how many were entered (n), the sum of
                  \* their samples (recv), the sum of the samples and
                  \* buffer values read into the deltas (cons), whether one was
                  \* entered while another was inside (overlap), whether
                  \* one ended in -EFAULT (fault)

prog == << buffer_x, buffer_y, buffer_whl, carry_x, carry_y, carry_whl,
           last_ms, last, g_update, g_next_update, g_AccelerationMode, g,
           g_param, fpu_depth, clock >>

\* What is recorded of the calls.
seen == << irq_fpu_usable, calc, cons, calls, sample, out, status, path,
           fpu_log, merged, used, reloads, reload_at, owed, run, taken >>

hist == << seen, writes >>

stmt == << thr, acct >>

vars == << prog, hist, stmt >>

Vec(a, b, c) == [x |-> a, y |-> b, whl |-> c]

VZero == Vec(0, 0, 0)

FVZero == Vec(FZero, FZero, FZero)

NoCalc ==
    [raw |-> FZero, ms |-> FOne, rate |-> FZero, gain |-> FZero,
     ideal |-> FVZero, scaled |-> FVZero]

\* ok: every call so far was an Ok cycle, all with one gain and one
\* Sensitivity, and the sums below are exact.  exact: every addition of a
\* carry was exact.  gain, sens: those of the cycles (of the first one).
\* out_x, out_y: the sums of the outputs; ideal_x, ideal_y: the sums of
\* delta * gain * Sensitivity, in sixteenths.
NoCons ==
    [ok |-> TRUE, exact |-> TRUE, n |-> 0, gain |-> FZero, sens |-> FZero,
     out_x |-> 0, out_y |-> 0, ideal_x |-> 0, ideal_y |-> 0]

\* A caller that is not inside accelerate().
Outside == [pc |-> "idle", s |-> VZero, d |-> FVZero, st |-> 0]

Init ==
    /\ buffer_x = 0 /\ buffer_y = 0 /\ buffer_whl = 0
    /\ carry_x = FZero /\ carry_y = FZero /\ carry_whl = FZero
    /\ last_ms = FOne
    /\ last = 0
    /\ g_update = 0
    /\ g_next_update = 0
    /\ g_AccelerationMode = ACCELERATION_MODE
    /\ g = DefaultParams
    /\ g_param = DefaultStrings
    /\ fpu_depth = 0
    /\ clock = 0
    /\ irq_fpu_usable = TRUE
    /\ calc = NoCalc
    /\ cons = NoCons
    /\ calls = 0 /\ writes = 0
    /\ sample = VZero /\ out = VZero
    /\ status = 0 /\ path = "none" /\ fpu_log = << >>
    /\ merged = FVZero /\ used = DefaultParams
    /\ reloads = 0 /\ reload_at = -1
    /\ owed = VZero /\ run = "empty"
    /\ taken = [run |-> "empty", sum |-> VZero]
    /\ thr = [t \in Callers |-> Outside]
    /\ acct = [n |-> 0, recv |-> VZero, cons |-> VZero, overlap |-> FALSE,
               fault |-> FALSE]

----------------------------------------------------------------------------
(* updata_params *)

\* NextUpdate without the second added: g_next_update = now.
NextUpdateNow(now) == now

\* g_next_update = now + 1000000000ll
NextUpdate(now) == now + 1000 * TicksPerMs

\* ReloadDue with <= in the second early return: a call at the next update
\* time itself applies nothing.
ReloadDueLater(now) == ~(g_update = 0) /\ ~(now <= g_next_update)

\* ReloadDue without the first early return: the flag is not looked at.
ReloadDueUnasked(now) == ~(now < g_next_update)

\* The two early returns: a reload is applied iff neither is taken.
ReloadDue(now) == ~(g_update = 0) /\ ~(now < g_next_update)

\* PARAM_UPDATE(param) for each of the eight float parameters.
ParsedParams == [p \in ParamNames |-> atof(g_param[p])]

\* updata_params(now): the values it leaves in g_update, g_next_update and
\* the float parameters, and whether it applied a reload.
updata_params(now) ==
    IF ReloadDue(now)
    THEN [applied |-> TRUE, g_update |-> 0, g_next_update |-> NextUpdate(now),
          g |-> ParsedParams]
    ELSE [applied |-> FALSE, g_update |-> g_update,
          g_next_update |-> g_next_update, g |-> g]

----------------------------------------------------------------------------
(* accelerate *)

\* BufferSample with = in place of +=.
BufferSampleOverwrite(s) == Vec(s.x, s.y, s.whl)

\* buffer_x += *x; buffer_y += *y; buffer_whl += *wheel
BufferSample(s) ==
    Vec(buffer_x + s.x, buffer_y + s.y, buffer_whl + s.whl)

\* delta_x = (float) (*x); ...
CastSample(s) == Vec(IntToF(s.x), IntToF(s.y), IntToF(s.whl))

\* (int) delta_x == *x && (int) delta_y == *y && (int) delta_whl == *wheel
CastOk(s, d) ==
    /\ FToInt(d.x) = s.x
    /\ FToInt(d.y) = s.y
    /\ FToInt(d.whl) = s.whl

\* delta_x += (float) buffer_x; ...
MergeBuffer(d) ==
    Vec(FAdd(d.x, IntToF(buffer_x)),
        FAdd(d.y, IntToF(buffer_y)),
        FAdd(d.whl, IntToF(buffer_whl)))

\* FrameRaw measured from the call before, whatever it returned.
FrameRawSinceCall(now) == IntToF((now - clock) \div TicksPerMs)

\* ms = (now - last) / (1000 * 1000): whole milliseconds, as a float.
FrameRaw(now) == IntToF((now - last) \div TicksPerMs)

\* FrameFallback with 1 ms in place of the last frame time.
FrameFallbackOne(ms) == IF FLt(ms, FOne) THEN FOne ELSE ms

\* if (ms < 1) ms = last_ms
FrameFallback(ms) == IF FLt(ms, FOne) THEN last_ms ELSE ms

\* if (ms > 100) ms = 100
FrameClamp(ms) == IF FLt(IntToF(100), ms) THEN IntToF(100) ELSE ms

\* The frame time: the measurement, then the fallback and the clamp.
FrameTime(now) == FrameClamp(FrameFallback(FrameRaw(now)))

\* ParamsRead with the Sensitivity taken from the copy made on entry.
ParamsReadStale(accel_sens, gnew) == [gnew EXCEPT !.Sensitivity = accel_sens]

\* The parameter values the computation reads after updata_params(now) has
\* left gnew in the float parameters; accel_sens is the copy of
\* g_Sensitivity taken on entry, which nothing reads.
ParamsRead(accel_sens, gnew) == gnew

\* speed = B_sqrt(delta_x * delta_x + delta_y * delta_y)
Dist(d) == B_sqrt(FAdd(FMul(d.x, d.x), FMul(d.y, d.y)))

\* SpeedCapped without g_SpeedCap != 0: a cap of zero clamps as well.
SpeedCappedByZero(dist, p) ==
    IF FLe(p.SpeedCap, dist) THEN p.SpeedCap ELSE dist

\* if (g_SpeedCap != 0) if (speed >= g_SpeedCap) speed = g_SpeedCap
SpeedCapped(dist, p) ==
    IF p.SpeedCap # FZero /\ FLe(p.SpeedCap, dist) THEN p.SpeedCap ELSE dist

\* speed /= ms; speed -= g_Offset
Rate(d, ms, p) == FSub(FDiv(SpeedCapped(Dist(d), p), ms), p.Offset)

\* Gain without speed += 1 in case 1.
GainLinearBare(rate, mode, p) ==
    IF FLt(FZero, rate) /\ mode = 1 THEN FMul(rate, p.Acceleration) ELSE rate

\* Gain without if (speed > 0): the curve is applied to any rate.
GainAnyRate(rate, mode, p) ==
    CASE mode = 1 -> FAdd(FMul(rate, p.Acceleration), FOne)
      [] mode = 2 -> B_pow(FAdd(FMul(rate, p.Acceleration), FOne),
                           p.Exponent)
      [] mode = 3 -> FDiv(p.Acceleration,
                          FAdd(FOne, B_pow(e, FSub(p.Midpoint, rate))))
      [] OTHER    -> rate

\* The multiplier: the curve of the mode applied to a rate above zero.
Gain(rate, mode, p) ==
    IF FLt(FZero, rate)
    THEN CASE mode = 1 -> FAdd(FMul(rate, p.Acceleration), FOne)
           [] mode = 2 -> B_pow(FAdd(FMul(rate, p.Acceleration), FOne),
                                p.Exponent)
           [] mode = 3 -> FDiv(p.Acceleration,
                               FAdd(FOne, B_pow(e, FSub(p.Midpoint, rate))))
           [] OTHER    -> rate
    ELSE rate

\* Ideal with the gain held at g_SensitivityCap.
IdealCapped(v, gain, p) ==
    FMul(FMul(v, IF FLt(p.SensitivityCap, gain) THEN p.SensitivityCap
                 ELSE gain),
         p.Sensitivity)

\* delta_x *= speed; delta_x *= g_Sensitivity: the value the carry is
\* added to.
Ideal(v, gain, p) == FMul(FMul(v, gain), p.Sensitivity)

\* delta_whl *= g_ScrollsPerTick / 3.0f
WheelScaled(w, p) == FMul(w, FDiv(p.ScrollsPerTick, IntToF(3)))

\* AddCarry with delta_whl += carry_whl as well.
AddCarryWheel(i) ==
    Vec(FAdd(i.x, carry_x), FAdd(i.y, carry_y), FAdd(i.whl, carry_whl))

\* delta_x += carry_x; delta_y += carry_y (the wheel takes no carry).
AddCarry(i) == Vec(FAdd(i.x, carry_x), FAdd(i.y, carry_y), i.whl)

\* Rounded with a plain cast to int in place of Leet_round.
RoundedTrunc(v) == Vec(FToInt(v.x), FToInt(v.y), FToInt(v.whl))

\* *x = Leet_round(&delta_x); ...
Rounded(v) == Vec(Leet_round(v.x), Leet_round(v.y), Leet_round(v.whl))

\* *x == -2147483648 || *y == -2147483648 || *wheel == -2147483648
FinalTrap(o) == o.x = IntMin \/ o.y = IntMin \/ o.whl = IntMin

\* carry_x = delta_x - *x; ...
NewCarry(v, o) ==
    Vec(FSub(v.x, IntToF(o.x)), FSub(v.y, IntToF(o.y)),
        FSub(v.whl, IntToF(o.whl)))

\* FpuCalls with a return in place of goto exit in the final trap.
FpuCallsLeak(p) ==
    IF p = "busy" THEN << >>
    ELSE IF p = "post_fault" THEN <<"begin">>
    ELSE <<"begin", "end">>

\* The kernel_fpu_begin()/kernel_fpu_end() calls made on each path.
FpuCalls(p) == IF p = "busy" THEN << >> ELSE <<"begin", "end">>

Carry == Vec(carry_x, carry_y, carry_whl)

Buffer == Vec(buffer_x, buffer_y, buffer_whl)

\* StoredCarry with the carry saved ahead of the final trap.
StoredCarryAlways(v, o) == NewCarry(v, o)

\* The carry a call leaves once the deltas are rounded: the trap returns
\* before the carry is assigned.
StoredCarry(v, o) == IF FinalTrap(o) THEN Carry ELSE NewCarry(v, o)

\* DrainBuffer with the wheel buffer left as it is.
DrainBufferPartial == Vec(0, 0, buffer_whl)

\* DrainBuffer without the assignments: the buffer is merged and kept.
DrainBufferNone == Vec(buffer_x, buffer_y, buffer_whl)

\* buffer_x = 0; buffer_y = 0; buffer_whl = 0
DrainBuffer == Vec(0, 0, 0)

\* What a call leaves behind when it returns before the frame time is taken.
Untouched(s) ==
    [ carry |-> Carry, last_ms |-> last_ms, last |-> last,
      upd |-> [applied |-> FALSE, g_update |-> g_update,
               g_next_update |-> g_next_update, g |-> g],
      out |-> s, merged |-> FVZero, used |-> used, calc |-> calc ]

\* The call once the sample is validated, block by block; c holds the
\* locals computed so far.  First the buffer is merged, the frame time
\* taken and updata_params(now) called.
Entered(s, now) ==
    [now |-> now, merged |-> MergeBuffer(CastSample(s)),
     raw |-> FrameRaw(now), ms |-> FrameTime(now),
     upd |-> updata_params(now)]

Read(c) == c @@ [used |-> ParamsRead(g.Sensitivity, c.upd.g)]

Speed(c) == c @@ [rate |-> Rate(c.merged, c.ms, c.used)]

Curve(c) == c @@ [gain |-> Gain(c.rate, g_AccelerationMode, c.used)]

Apply(c) ==
    c @@ [ideal |-> Vec(Ideal(c.merged.x, c.gain, c.used),
                        Ideal(c.merged.y, c.gain, c.used),
                        WheelScaled(c.merged.whl, c.used))]

Carried(c) == c @@ [scaled |-> AddCarry(c.ideal)]

Round(c) == c @@ [out |-> Rounded(c.scaled)]

\* The final trap, the carry and the return.
Return(c) ==
    [path |-> IF FinalTrap(c.out) THEN "post_fault" ELSE "ok",
     status |-> IF FinalTrap(c.out) THEN -EFAULT ELSE 0,
     buffer |-> DrainBuffer, last_ms |-> c.ms, last |-> c.now, upd |-> c.upd,
     out |-> c.out, merged |-> c.merged, used |-> c.used,
     carry |-> StoredCarry(c.scaled, c.out),
     calc |-> [raw |-> c.raw, ms |-> c.ms, rate |-> c.rate,
               gain |-> c.gain, ideal |-> c.ideal, scaled |-> c.scaled]]

\* One call accelerate(&x, &y, &wheel) with <<x, y, wheel>> = s, when
\* irq_fpu_usable() returns usable and ktime_get() returns now.
Cycle(usable, s, now) ==
    IF ~usable
    THEN [path |-> "busy", status |-> -EBUSY, buffer |-> BufferSample(s)]
         @@ Untouched(s)
    ELSE IF ~CastOk(s, CastSample(s))
    THEN [path |-> "pre_fault", status |-> -EFAULT,
          buffer |-> BufferSample(s)] @@ Untouched(s)
    ELSE Return(Round(Carried(Apply(Curve(Speed(Read(Entered(s, now))))))))

\* A float that is a whole number of sixteenths below 2^25, and that number.
InSixteenths(f) == f.m = 0 \/ (f.e >= -4 /\ Top(f) <= 25)

Sixteenths(f) == IF f.m = 0 THEN 0 ELSE f.m * Pow2(f.e + 4)

\* The running sums after a call that left r.
Conserved(r) ==
    LET i    == r.calc.ideal
        v    == r.calc.scaled
        fits == /\ InSixteenths(i.x) /\ InSixteenths(i.y)
                /\ InSixteenths(v.x) /\ InSixteenths(v.y)
                /\ InSixteenths(carry_x) /\ InSixteenths(carry_y)
        same == \/ cons.n = 0
                \/ cons.gain = r.calc.gain /\ cons.sens = r.used.Sensitivity
    IN  IF r.path = "ok" /\ cons.ok /\ fits /\ same
        THEN [ok |-> TRUE,
              exact |-> /\ cons.exact
                        /\ Sixteenths(i.x) + Sixteenths(carry_x)
                               = Sixteenths(v.x)
                        /\ Sixteenths(i.y) + Sixteenths(carry_y)
                               = Sixteenths(v.y),
              n |-> cons.n + 1,
              gain |-> r.calc.gain, sens |-> r.used.Sensitivity,
              out_x |-> cons.out_x + r.out.x,
              out_y |-> cons.out_y + r.out.y,
              ideal_x |-> cons.ideal_x + Sixteenths(i.x),
              ideal_y |-> cons.ideal_y + Sixteenths(i.y)]
        ELSE [cons EXCEPT !.ok = FALSE]

Accelerate(usable, s, dt) ==
    /\ \E r \in {Cycle(usable, s, clock + dt)} :
       LET now == clock + dt
           log == FpuCalls(r.path)
           mrg == r.path \in {"ok", "post_fault"}
       IN  /\ clock' = now
           /\ buffer_x' = r.buffer.x
           /\ buffer_y' = r.buffer.y
           /\ buffer_whl' = r.buffer.whl
           /\ carry_x' = r.carry.x
           /\ carry_y' = r.carry.y
           /\ carry_whl' = r.carry.whl
           /\ last_ms' = r.last_ms
           /\ last' = r.last
           /\ g_update' = r.upd.g_update
           /\ g_next_update' = r.upd.g_next_update
           /\ g' = r.upd.g
           /\ fpu_depth' = fpu_depth
                  + Cardinality({i \in DOMAIN log : log[i] = "begin"})
                  - Cardinality({i \in DOMAIN log : log[i] = "end"})
           /\ irq_fpu_usable' = usable
           /\ calc' = r.calc
           /\ cons' = Conserved(r)
           /\ calls' = calls + 1
           /\ sample' = s
           /\ out' = r.out
           /\ status' = r.status
           /\ path' = r.path
           /\ fpu_log' = log
           /\ merged' = r.merged
           /\ used' = r.used
           /\ reloads' = IF r.upd.applied THEN reloads + 1 ELSE reloads
           /\ reload_at' = IF r.upd.applied THEN now ELSE reload_at
           /\ owed' = IF mrg THEN VZero
                      ELSE Vec(owed.x + s.x, owed.y + s.y, owed.whl + s.whl)
           /\ run' = IF mrg THEN "empty"
                     ELSE IF r.path = "busy" /\ run # "mixed" THEN "busy"
                     ELSE "mixed"
           /\ taken' = IF mrg
                       THEN [run |-> run,
                             sum |-> Vec(owed.x + s.x, owed.y + s.y,
                                         owed.whl + s.whl)]
                       ELSE taken
    /\ UNCHANGED << g_AccelerationMode, g_param, writes, stmt >>

----------------------------------------------------------------------------
(* The parameters under /sys/module/leetmouse/parameters *)

\* A write to one of the float parameters (charp): the string is replaced.
WriteParam(name, str) ==
    /\ g_param[name] # str
    /\ g_param' = [g_param EXCEPT ![name] = str]
    /\ writes' = writes + 1
    /\ UNCHANGED << buffer_x, buffer_y, buffer_whl, carry_x, carry_y,
                    carry_whl, last_ms, last, g_update, g_next_update,
                    g_AccelerationMode, g, fpu_depth, clock >>
    /\ UNCHANGED << seen, stmt >>

\* A write to AccelerationMode (byte): the variable itself is replaced.
WriteMode(v) ==
    /\ g_AccelerationMode # v
    /\ g_AccelerationMode' = v
    /\ writes' = writes + 1
    /\ UNCHANGED << buffer_x, buffer_y, buffer_whl, carry_x, carry_y,
                    carry_whl, last_ms, last, g_update, g_next_update,
                    g, g_param, fpu_depth, clock >>
    /\ UNCHANGED << seen, stmt >>

\* A write of 1 to update (byte): a reload is requested.
WriteUpdate ==
    /\ g_update = 0
    /\ g_update' = 1
    /\ UNCHANGED << buffer_x, buffer_y, buffer_whl, carry_x, carry_y,
                    carry_whl, last_ms, last, g_next_update,
                    g_AccelerationMode, g, g_param, fpu_depth, clock >>
    /\ UNCHANGED << hist, stmt >>

----------------------------------------------------------------------------
(* Specifications *)

\* Any reports, with the FPU usable or not, and writes to the parameters,
\* up to the last call.
Next ==
    \/ \E usable \in BOOLEAN, s \in Samples, dt \in Elapsed :
           calls < MaxCalls /\ Accelerate(usable, Vec(s[1], s[2], s[3]), dt)
    \/ \E w \in ParamWrites :
           calls < MaxCalls /\ writes < MaxWrites /\ WriteParam(w[1], w[2])
    \/ \E v \in ModeWrites :
           calls < MaxCalls /\ writes < MaxWrites /\ WriteMode(v)
    \/ calls < MaxCalls /\ WriteUpdate

Spec == Init /\ [][Next]_vars

\* Reports a float holds, with the FPU always usable, and writes to the
\* float parameters.
NextOk ==
    \/ \E s \in OkSamples, dt \in OkElapsed :
           calls < MaxOkCalls /\ Accelerate(TRUE, Vec(s[1], s[2], s[3]), dt)
    \/ \E w \in ParamWrites :
           calls < MaxOkCalls /\ WriteParam(w[1], w[2])
    \/ calls < MaxOkCalls /\ WriteUpdate

SpecOk == Init /\ [][NextOk]_vars

\* The curve: the parameters are written before the first report, then
\* reports follow, with the FPU usable or not.
NextCurve ==
    \/ \E usable \in BOOLEAN, s \in CurveSamples, dt \in CurveElapsed :
           /\ calls < MaxCurveCalls
           /\ Accelerate(usable, Vec(s[1], s[2], s[3]), dt)
    \/ \E w \in CurveWrites :
           calls = 0 /\ writes < MaxWrites /\ WriteParam(w[1], w[2])
    \/ \E v \in CurveModes :
           calls = 0 /\ writes < MaxWrites /\ WriteMode(v)
    \/ calls = 0 /\ WriteUpdate

SpecCurve == Init /\ [][NextCurve]_vars

----------------------------------------------------------------------------
(* accelerate, statement by statement, for callers that do not serialize *)

\* What the statements below leave alone.
params == << g_AccelerationMode, g_param >>

carries == << carry_x, carry_y, carry_whl, last_ms, last, g_update,
              g_next_update, g >>

\* The call from the frame time to the return, for the merged deltas d.
Rest(d, now) ==
    Return(Round(Carried(Apply(Curve(Speed(Read(
        [now |-> now, merged |-> d, raw |-> FrameRaw(now),
         ms |-> FrameTime(now), upd |-> updata_params(now)])))))))

\* Lines 128 and 153-170: irq_fpu_usable(), kernel_fpu_begin(), the casts
\* and the pre-validation, all on locals.
EnterCall(t, usable, s) ==
    /\ thr[t].pc = "idle"
    /\ thr' = [thr EXCEPT ![t] =
                  [pc |-> IF usable /\ CastOk(s, CastSample(s))
                          THEN "merge_x" ELSE "buf_x",
                   s  |-> s,
                   d  |-> IF usable THEN CastSample(s) ELSE FVZero,
                   st |-> IF ~usable THEN -EBUSY
                          ELSE IF CastOk(s, CastSample(s)) THEN 0
                          ELSE -EFAULT]]
    /\ fpu_depth' = IF usable THEN fpu_depth + 1 ELSE fpu_depth
    /\ acct' = [acct EXCEPT
                  !.n = @ + 1,
                  !.recv = Vec(@.x + s.x, @.y + s.y, @.whl + s.whl),
                  !.cons = IF usable /\ CastOk(s, CastSample(s))
                           THEN Vec(@.x + s.x, @.y + s.y, @.whl + s.whl)
                           ELSE @,
                  !.overlap = @ \/ \E u \in Callers \ {t} :
                                       thr[u].pc # "idle",
                  !.fault = @ \/ (usable /\ ~CastOk(s, CastSample(s)))]
    /\ UNCHANGED << buffer_x, buffer_y, buffer_whl, carries, params, clock,
                    hist >>

\* Lines 131-134 and 173-180: buffer_x += *x; buffer_y += *y;
\* buffer_whl += *wheel, one statement a step, then the return.
BufferStatement(t) ==
    /\ thr[t].pc \in {"buf_x", "buf_y", "buf_whl"}
    /\ buffer_x' = IF thr[t].pc = "buf_x"
                    THEN BufferSample(thr[t].s).x ELSE buffer_x
    /\ buffer_y' = IF thr[t].pc = "buf_y"
                    THEN BufferSample(thr[t].s).y ELSE buffer_y
    /\ buffer_whl' = IF thr[t].pc = "buf_whl"
                      THEN BufferSample(thr[t].s).whl ELSE buffer_whl
    /\ thr' = [thr EXCEPT ![t] =
                  IF thr[t].pc = "buf_x" THEN [@ EXCEPT !.pc = "buf_y"]
                  ELSE IF thr[t].pc = "buf_y" THEN [@ EXCEPT !.pc = "buf_whl"]
                  ELSE Outside]
    /\ fpu_depth' = IF thr[t].pc = "buf_whl" /\ thr[t].st = -EFAULT
                     THEN fpu_depth - 1 ELSE fpu_depth
    /\ UNCHANGED << carries, params, clock, hist, acct >>

\* Lines 184-186: delta_x += (float) buffer_x; ..., one statement a step.
MergeStatement(t) ==
    /\ thr[t].pc \in {"merge_x", "merge_y", "merge_whl"}
    /\ thr' = [thr EXCEPT ![t] =
                  IF thr[t].pc = "merge_x"
                  THEN [@ EXCEPT !.pc = "merge_y",
                                 !.d.x = MergeBuffer(thr[t].d).x]
                  ELSE IF thr[t].pc = "merge_y"
                  THEN [@ EXCEPT !.pc = "merge_whl",
                                 !.d.y = MergeBuffer(thr[t].d).y]
                  ELSE [@ EXCEPT !.pc = "zero_x",
                                 !.d.whl = MergeBuffer(thr[t].d).whl]]
    /\ acct' = [acct EXCEPT !.cons =
                  IF thr[t].pc = "merge_x"
                  THEN [@ EXCEPT !.x = @ + buffer_x]
                  ELSE IF thr[t].pc = "merge_y"
                  THEN [@ EXCEPT !.y = @ + buffer_y]
                  ELSE [@ EXCEPT !.whl = @ + buffer_whl]]
    /\ UNCHANGED << buffer_x, buffer_y, buffer_whl, carries, params,
                    fpu_depth, clock, hist >>

\* Lines 187-189: buffer_x = 0; buffer_y = 0; buffer_whl = 0, one
\* statement a step.
ZeroStatement(t) ==
    /\ thr[t].pc \in {"zero_x", "zero_y", "zero_whl"}
    /\ buffer_x' = IF thr[t].pc = "zero_x" THEN DrainBuffer.x ELSE buffer_x
    /\ buffer_y' = IF thr[t].pc = "zero_y" THEN DrainBuffer.y ELSE buffer_y
    /\ buffer_whl' = IF thr[t].pc = "zero_whl"
                      THEN DrainBuffer.whl ELSE buffer_whl
    /\ thr' = [thr EXCEPT ![t].pc =
                  IF @ = "zero_x" THEN "zero_y"
                  ELSE IF @ = "zero_y" THEN "zero_whl" ELSE "tail"]
    /\ UNCHANGED << carries, params, fpu_depth, clock, hist, acct >>

\* Lines 192-292: the frame time, the reload, the gain, the rounding, the
\* carry and the return, for the deltas the caller has merged.
TailStatements(t, dt) ==
    /\ thr[t].pc = "tail"
    /\ \E r \in {Rest(thr[t].d, clock + dt)} :
           /\ clock' = clock + dt
           /\ carry_x' = r.carry.x
           /\ carry_y' = r.carry.y
           /\ carry_whl' = r.carry.whl
           /\ last_ms' = r.last_ms
           /\ last' = r.last
           /\ g_update' = r.upd.g_update
           /\ g_next_update' = r.upd.g_next_update
           /\ g' = r.upd.g
           /\ acct' = [acct EXCEPT !.fault = @ \/ r.path = "post_fault"]
    /\ thr' = [thr EXCEPT ![t] = Outside]
    /\ fpu_depth' = fpu_depth - 1
    /\ UNCHANGED << buffer_x, buffer_y, buffer_whl, params, hist >>

\* Callers that enter accelerate() whenever they have a report, another
\* caller being inside or not.
NextRace ==
    \/ \E t \in Callers, usable \in BOOLEAN, s \in RaceSamples :
           /\ acct.n < MaxRaceCalls
           /\ EnterCall(t, usable, Vec(s[1], s[2], s[3]))
    \/ \E t \in Callers : BufferStatement(t)
    \/ \E t \in Callers : MergeStatement(t)
    \/ \E t \in Callers : ZeroStatement(t)
    \/ \E t \in Callers, dt \in RaceElapsed : TailStatements(t, dt)

SpecRace == Init /\ [][NextRace]_vars

----------------------------------------------------------------------------
(* Properties *)

Plus(b, s) == Vec(b.x + s.x, b.y + s.y, b.whl + s.whl)

\* The float f is the integer n, exactly.
ExactF(f, n) == f = IntToF(n) /\ FToInt(f) = n

FAbs(a) == [m |-> Abs(a.m), e |-> a.e]

Half == [m |-> 1, e |-> -1]

OneSecond == 1000 * TicksPerMs

\* The parameters the outputs depend on.
CurveParams ==
    {"SpeedCap", "Offset", "Acceleration", "Exponent", "Midpoint",
     "Sensitivity", "ScrollsPerTick"}

Fields(p) == [n \in CurveParams |-> p[n]]

\* C1, as the specification states it: when a call merges the samples of a
\* run of calls that found the FPU unusable, the merged deltas that enter
\* the gain computation equal, per axis, the sum of the raw deltas of the
\* run and of the call itself.
C1_MergedIsRawSum ==
    (path \in {"ok", "post_fault"} /\ taken.run = "busy")
        => /\ ExactF(merged.x, taken.sum.x)
           /\ ExactF(merged.y, taken.sum.y)
           /\ ExactF(merged.whl, taken.sum.whl)

\* C2: a call that finds the FPU unusable adds the sample to the buffer,
\* returns -EBUSY and changes nothing else: the carry, the float
\* parameters, the update flag, the next update time, the last timestamp,
\* the last frame time and the caller's x, y and wheel stay as they were,
\* and the FPU is neither begun nor ended.
C2_BusyOnlyBuffers ==
    [][ (calls' = calls + 1 /\ ~irq_fpu_usable')
            => /\ Buffer' = Plus(Buffer, sample')
               /\ status' = -EBUSY
               /\ Carry' = Carry
               /\ g' = g
               /\ g_update' = g_update
               /\ g_next_update' = g_next_update
               /\ last' = last
               /\ last_ms' = last_ms
               /\ out' = sample'
               /\ fpu_log' = << >>
               /\ fpu_depth' = fpu_depth ]_vars

\* An unusable call made with samples already buffered and a reload
\* requested.
C2_Witness ==
    /\ path = "busy"
    /\ Buffer # sample
    /\ g_update = 1

\* C3: a call that begins using the FPU ends it exactly once before it
\* returns, on the Ok path and on both fault paths; after any call the FPU
\* is not held, and a call that did not begin does not end.
C3_FpuReleased ==
    /\ fpu_depth = 0
    /\ path = "busy" => fpu_log = << >>
    /\ path \in {"ok", "pre_fault", "post_fault"}
           => fpu_log = <<"begin", "end">>

\* A call that left through the final trap.
C3_Witness == path = "post_fault" /\ fpu_log = <<"begin", "end">>

\* C4: the carry changes only in a call that returns 0; a call that
\* returns -EBUSY or -EFAULT, from either trap, leaves it as it was.
C4_CarryOnlyOnOk ==
    [][ Carry' # Carry => (calls' = calls + 1 /\ status' = 0) ]_vars

\* A call that left through the final trap with a carry at hand.
C4_Witness == path = "post_fault" /\ carry_x # FZero

\* C5, as the specification states it: on every failure path the buffer
\* only grows, and the carry and the parameters are as they were before
\* the call.
C5_FailureKeepsState ==
    [][ (calls' = calls + 1 /\ status' # 0)
            => /\ Buffer' = Buffer \/ Buffer' = Plus(Buffer, sample')
               /\ Carry' = Carry
               /\ g' = g
               /\ g_AccelerationMode' = g_AccelerationMode ]_vars

\* C6, as the specification states it: every call that returns -EFAULT
\* has added its sample to the buffer.
C6_FaultBuffersInput ==
    [][ (calls' = calls + 1 /\ status' = -EFAULT)
            => Buffer' = Plus(Buffer, sample') ]_vars

\* C7: any two reloads applied are at least one second apart.
C7_Debounce ==
    [][ (reloads' = reloads + 1 /\ reload_at # -1)
            => reload_at' - reload_at >= OneSecond ]_vars

\* Two reloads applied.
C7_Witness == reloads = 2

\* C8, as the specification states it: every parameter the computation
\* reads, AccelerationMode among them, changes only when a reload is
\* applied.
C8_AllOnlyByReload ==
    [][ (g' # g \/ g_AccelerationMode' # g_AccelerationMode)
            => reloads' = reloads + 1 ]_vars

\* C8, amended: the float parameters change only in a call that applies a
\* requested reload, not earlier than the next update time, and then to
\* what the strings parse to; a call that applies none computes with the
\* float parameters as they were.  AccelerationMode is no part of the
\* reload: it changes when it is written, outside any call.
C8_FloatsOnlyByReload ==
    [][ /\ g' # g => /\ calls' = calls + 1
                     /\ reloads' = reloads + 1
                     /\ g_update # 0
                     /\ ~(clock' < g_next_update)
                     /\ g' = [p \in ParamNames |-> atof(g_param[p])]
        /\ (calls' = calls + 1 /\ reloads' = reloads
               /\ path' \in {"ok", "post_fault"}) => used' = g
        /\ g_AccelerationMode' # g_AccelerationMode
               => (calls' = calls /\ reloads' = reloads) ]_vars

\* A reload has changed the Sensitivity, and a call has computed with it.
C8_Witness ==
    /\ reloads >= 1
    /\ g.Sensitivity # DefaultParams.Sensitivity
    /\ path = "ok"
    /\ used = g

\* C9: in every call that computes, the parameters the outputs depend on
\* are all those of before the call or all those the call's reload left.
C9_OneGeneration ==
    [][ (calls' = calls + 1 /\ path' \in {"ok", "post_fault"})
            => \/ Fields(used') = Fields(g)
               \/ Fields(used') = Fields(g') ]_vars

\* A call has applied a reload that changed two of the parameters, and has
\* computed.
C9_Witness ==
    /\ path = "ok"
    /\ reload_at = clock
    /\ used.Sensitivity # DefaultParams.Sensitivity
    /\ used.Acceleration # DefaultParams.Acceleration

\* The carry c is v - o, exactly.
CarryIsExact(c, v, o) ==
    IF v.m = 0 THEN o = 0 /\ c.m = 0
    ELSE IF v.e >= 0 THEN c.m = 0 /\ Top(v) <= 31 /\ o = v.m * Pow2(v.e)
    ELSE IF v.e < -24 THEN o = 0 /\ c = v
    ELSE \/ c.m = 0 /\ o * Pow2(-v.e) = v.m
         \/ /\ c.m # 0
            /\ c.e >= v.e
            /\ c.e - v.e <= 30
            /\ c.m * Pow2(c.e - v.e) + o * Pow2(-v.e) = v.m

C11_DrainedWhole ==
    [][ calls' = calls + 1
            => /\ status' = 0 => Buffer' = VZero
               /\ \/ /\ Buffer' = VZero
                     /\ merged' = MergeBuffer(CastSample(sample'))
                  \/ /\ Buffer' = Plus(Buffer, sample')
                     /\ status' # 0 ]_vars

\* A call has merged a buffer filled on all three axes and returned 0.
C11_Witness ==
    /\ path = "ok"
    /\ taken.run = "busy"
    /\ taken.sum.x # sample.x /\ taken.sum.y # sample.y
    /\ taken.sum.whl # sample.whl
    /\ Buffer = VZero

Hundred == IntToF(100)

\* C12: the frame time a call computes with is between 1 and 100 ms.  A
\* measurement below 1 ms is replaced by the frame time the call before
\* accepted, one above 100 ms by 100, any other is taken as it is; the
\* frame time accepted is kept as the next fallback, which is therefore
\* between 1 and 100 in every state, from its first value 1.
C12_FrameTimeInRange ==
    /\ [](FLe(FOne, last_ms) /\ FLe(last_ms, Hundred))
    /\ [][ (calls' = calls + 1 /\ path' \in {"ok", "post_fault"})
              => /\ calc'.raw = IntToF((clock' - last) \div TicksPerMs)
                 /\ FLt(calc'.raw, FOne) => calc'.ms = last_ms
                 /\ FLt(Hundred, calc'.raw) => calc'.ms = Hundred
                 /\ (~FLt(calc'.raw, FOne) /\ ~FLt(Hundred, calc'.raw))
                        => calc'.ms = calc'.raw
                 /\ FLe(FOne, calc'.ms) /\ FLe(calc'.ms, Hundred)
                 /\ last_ms' = calc'.ms ]_vars

\* A call that measured less than 1 ms has fallen back on the 8 ms of the
\* call before.
C12_Witness ==
    /\ path = "ok"
    /\ FLt(calc.raw, FOne)
    /\ calc.ms = IntToF(8)

\* C13: a call that reaches updata_params(now) applies a reload if and
\* only if the update flag is set and now is not before the next update
\* time, a call at that very time included.  When it applies one, the flag
\* is cleared and the next update time is now plus one second; when it
\* applies none, the flag, the next update time and the float parameters
\* are as they were.  The flag is cleared by nothing else, so a request
\* made within the second stays until a call at or after the next update
\* time applies it.
C13_ReloadGate ==
    [][ /\ (calls' = calls + 1 /\ path' \in {"ok", "post_fault"})
              => /\ (reloads' = reloads + 1)
                        <=> (g_update # 0 /\ clock' >= g_next_update)
                 /\ reloads' = reloads + 1
                        => /\ g_update' = 0
                           /\ g_next_update' = clock' + OneSecond
                 /\ reloads' = reloads
                        => /\ g_update' = g_update
                           /\ g_next_update' = g_next_update
                           /\ g' = g
        /\ (g_update # 0 /\ g_update' = 0) => reloads' = reloads + 1
        /\ reloads' # reloads
              => (calls' = calls + 1 /\ path' \in {"ok", "post_fault"}) ]_vars

\* Two calls one second apart have each applied a reload: the second came
\* at the next update time the first had set.
C13_Witness ==
    /\ calls = 2
    /\ reloads = 2
    /\ path = "ok"
    /\ reload_at = clock
    /\ clock <= 2 * OneSecond
    /\ g_update = 0
    /\ g_next_update = clock + OneSecond

Computed == {"ok", "post_fault"}

\* C14: in a call whose rate is zero or less, or made with
\* AccelerationMode other than 1, 2 and 3, the multiplier of delta_x and
\* of delta_y is the rate itself; a rate below zero turns the sign of both
\* deltas, before the Sensitivity and the carry.
C14_PassThroughGain ==
    [][ ( /\ calls' = calls + 1
          /\ path' \in Computed
          /\ \/ FLe(calc'.rate, FZero)
             \/ g_AccelerationMode \notin {1, 2, 3} )
            => /\ calc'.gain = calc'.rate
               /\ calc'.ideal.x
                      = FMul(FMul(merged'.x, calc'.rate), used'.Sensitivity)
               /\ calc'.ideal.y
                      = FMul(FMul(merged'.y, calc'.rate), used'.Sensitivity)
               /\ FLt(calc'.rate, FZero)
                      => /\ Sgn(FMul(merged'.x, calc'.gain).m)
                                = - Sgn(merged'.x.m)
                         /\ Sgn(FMul(merged'.y, calc'.gain).m)
                                = - Sgn(merged'.y.m) ]_vars

\* A call in mode 3 with a rate below zero: x went in positive and came
\* out negative.
C14_Witness ==
    /\ path = "ok"
    /\ g_AccelerationMode = 3
    /\ FLt(calc.rate, FZero)
    /\ calc.gain = calc.rate
    /\ merged.x.m > 0
    /\ out.x < 0

\* rate * Acceleration + 1
Linear(rate, p) == FAdd(FMul(rate, p.Acceleration), FOne)

\* sqrt(dx^2 + dy^2) / ms - Offset, of the merged deltas d.
RateOfDist(d, ms, p) == FSub(FDiv(Dist(d), ms), p.Offset)

\* C15, as the specification states it: in a call made with
\* AccelerationMode 1 whose rate sqrt(dx^2 + dy^2) / ms - Offset, taken
\* of the merged deltas, is above zero, the multiplier of delta_x and of
\* delta_y is that rate * Acceleration + 1.
C15_LinearOfDistance ==
    [][ ( /\ calls' = calls + 1
          /\ path' \in Computed
          /\ g_AccelerationMode = 1
          /\ FLt(FZero, RateOfDist(merged', calc'.ms, used')) )
            => calc'.gain
                   = Linear(RateOfDist(merged', calc'.ms, used'), used') ]_vars

\* C15, amended: in a call made with AccelerationMode 1 whose rate is
\* above zero, the multiplier of delta_x and of delta_y is
\* rate * Acceleration + 1, where the rate is distance / ms - Offset and
\* the distance is sqrt(dx^2 + dy^2) of the merged deltas, or SpeedCap
\* when SpeedCap is not zero and the distance has reached it.  With
\* Acceleration 0.04 and rate 10 the multiplier is 1.4.
C15_Linear ==
    [][ ( /\ calls' = calls + 1
          /\ path' \in Computed
          /\ g_AccelerationMode = 1
          /\ FLt(FZero, calc'.rate) )
            => /\ calc'.rate
                      = FSub(FDiv(SpeedCapped(Dist(merged'), used'),
                                  calc'.ms),
                             used'.Offset)
               /\ calc'.gain = Linear(calc'.rate, used')
               /\ calc'.ideal.x
                      = FMul(FMul(merged'.x, calc'.gain), used'.Sensitivity)
               /\ calc'.ideal.y
                      = FMul(FMul(merged'.y, calc'.gain), used'.Sensitivity)
               /\ ( /\ used'.Acceleration = DecToF(4, 2)
                    /\ calc'.rate = IntToF(10) )
                      => calc'.gain = DecToF(14, 1) ]_vars

\* A call in mode 1 with Acceleration 0.04 and rate 10: the multiplier
\* was 1.4.
C15_Witness ==
    /\ path = "ok"
    /\ g_AccelerationMode = 1
    /\ used.Acceleration = DecToF(4, 2)
    /\ calc.rate = IntToF(10)
    /\ calc.gain = DecToF(14, 1)

\* The distance the rate is taken of, as C16 has it: cap when cap is not
\* zero and dist has reached it, dist otherwise.
DistUsed(cap, dist) == IF cap # FZero /\ FLe(cap, dist) THEN cap ELSE dist

\* The rate r is that of the distance taken of dist under cap.
RateOfUsed(r, dist, cap, ms, p) ==
    /\ r = FSub(FDiv(DistUsed(cap, dist), ms), p.Offset)
    /\ cap # FZero => FLe(DistUsed(cap, dist), cap)
    /\ cap = FZero => DistUsed(cap, dist) = dist

\* C16: when SpeedCap is not zero the distance the rate is computed from
\* is never above SpeedCap, being replaced by SpeedCap whenever
\* sqrt(dx^2 + dy^2) has reached it; when SpeedCap is zero the distance is
\* never clamped.  The clamp changes the rate only: the deltas multiplied
\* by the gain are the merged deltas as they are.
C16_SpeedCap ==
    [][ (calls' = calls + 1 /\ path' \in Computed)
            => /\ RateOfUsed(calc'.rate, Dist(merged'), used'.SpeedCap,
                             calc'.ms, used')
               /\ calc'.ideal.x
                      = FMul(FMul(merged'.x, calc'.gain), used'.Sensitivity)
               /\ calc'.ideal.y
                      = FMul(FMul(merged'.y, calc'.gain), used'.Sensitivity)
       ]_vars

\* A call with SpeedCap 5 and the deltas (6, 8) at 1 ms: the rate was 5
\* and the delta multiplied was 6.
C16_Witness ==
    /\ path = "ok"
    /\ used.SpeedCap = IntToF(5)
    /\ used.Offset = FZero
    /\ merged.x = IntToF(6) /\ merged.y = IntToF(8)
    /\ calc.ms = FOne
    /\ calc.rate = IntToF(5)
    /\ calc.ideal.x = FMul(FMul(IntToF(6), calc.gain), used.Sensitivity)

\* The wheel output of w under ScrollsPerTick spt, and what is left of it.
WheelOut(w, spt) == Leet_round(FMul(w, FDiv(spt, IntToF(3))))

WheelLeft(w, spt, o) == FSub(FMul(w, FDiv(spt, IntToF(3))), IntToF(o))

\* C17: after a call that returns 0 the wheel output is the merged wheel
\* delta times ScrollsPerTick / 3, rounded, whatever the gain, the
\* Sensitivity, the x and y deltas, the frame time and the carry kept
\* for the wheel; that carry is what the rounding left, and is added to
\* no later wheel value.
C17_WheelScaledOnly ==
    path = "ok"
        => /\ out.whl = WheelOut(merged.whl, used.ScrollsPerTick)
           /\ carry_whl = WheelLeft(merged.whl, used.ScrollsPerTick, out.whl)

\* Two calls that returned 0 with ScrollsPerTick 1: the first left a
\* third of a tick or more, the second, of one tick, put out none.
C17_Witness ==
    /\ path = "ok"
    /\ cons.n = 2
    /\ used.ScrollsPerTick = IntToF(1)
    /\ merged.whl = IntToF(1)
    /\ out.whl = 0
    /\ carry_whl # FZero

\* No caller is inside accelerate().
Quiescent == \A t \in Callers : thr[t].pc = "idle"

\* Every delta received was counted once: it is in the buffer or it was
\* read into the deltas of a call.
CountedOnce ==
    /\ acct.recv.x = acct.cons.x + buffer_x
    /\ acct.recv.y = acct.cons.y + buffer_y
    /\ acct.recv.whl = acct.cons.whl + buffer_whl

\* C18: when no call of accelerate() is entered while another is inside
\* and none ends in -EFAULT, then once the calls have returned every delta
\* received is in the buffer or was read into the deltas of a call, once;
\* when calls interleave statement by statement this fails, as
\* C18_Witness shows.
C18_SerializedCountsOnce ==
    (Quiescent /\ ~acct.overlap /\ ~acct.fault) => CountedOnce

\* Two calls were inside at once and both added the same buffered x to
\* their delta before either reset it: it was counted twice.
C18_Witness ==
    /\ Quiescent
    /\ acct.overlap
    /\ ~acct.fault
    /\ acct.cons.x + buffer_x > acct.recv.x

\* C19: the time of the last frame changes only in a call that gets past
\* irq_fpu_usable() and the pre-validation, and then to the time of that
\* call; a call that returns -EBUSY or -EFAULT from the pre-validation
\* leaves it.  The time a call measures is therefore taken from the last
\* call before it that got as far, over the calls that only buffered.
C19_LastOnlyByFrames ==
    [][ /\ (calls' = calls + 1 /\ path' \in {"busy", "pre_fault"})
              => last' = last
        /\ (calls' = calls + 1 /\ path' \in Computed)
              => /\ last' = clock'
                 /\ calc'.raw = IntToF((clock' - last) \div TicksPerMs)
        /\ last' # last => (calls' = calls + 1 /\ path' \in Computed)
      ]_vars

\* A call that found the FPU unusable after one second, then a call that
\* returned 0 a second later: it measured two seconds.
C19_Witness ==
    /\ calls = 2
    /\ path = "ok"
    /\ taken.run = "busy"
    /\ clock = 2 * OneSecond
    /\ last = clock
    /\ calc.raw = IntToF(2 * 1000)

\* The parameters p with another SensitivityCap.
OtherCap(p) == [p EXCEPT !.SensitivityCap = FAdd(@, FOne)]

\* The values c of a call on the deltas d are those it computes under the
\* parameters p.
ComputedUnder(p, d, c, mode) ==
    /\ c.rate = Rate(d, c.ms, p)
    /\ c.gain = Gain(c.rate, mode, p)
    /\ c.ideal = Vec(Ideal(d.x, c.gain, p), Ideal(d.y, c.gain, p),
                     WheelScaled(d.whl, p))

====
